---- MODULE Spec2Model ----
(***************************************************************************)
(* Model of the monthly billing pipeline of send_qbo_invoices:             *)
(* shared/task_minutes_to_clickup_and_qbo.py (process_all_clients and the  *)
(* functions it calls).                                                    *)
(*                                                                         *)
(* Conventions.                                                            *)
(*  - A Python exception that leaves process_all_clients ends the run with *)
(*    outcome.kind = "raised"; outcome.at names the step and outcome.cause *)
(*    the kind of exception.                                               *)
(*  - Decimal money values (consumption_rate, amounts) are counted in      *)
(*    hundredths, so 0.50 is 50 and 125.0 is 12500.                        *)
(*  - Values read from the outside world (secrets, the client table, the   *)
(*    snapshot, the usage platform, the task tracker, the clock) are       *)
(*    chosen when the code reads them.                                     *)
(***************************************************************************)
EXTENDS Integers, Sequences, FiniteSets, TLC

VARIABLES
    LOWER_CLIENT_ID,      \* module constant, line 30
    UPPER_CLIENT_ID,      \* module constant, line 31
    UPLOAD_TO_SHAREPOINT, \* module constant, line 27
    CREATE_INVOICE,       \* module constant, line 28
    UPDATE_CLICKUP,       \* module constant, line 29 (one value per run)
    table,                \* client_orgs_table.scan()['Items'], as client numbers
    run,                  \* per run of process_all_clients: its position and locals
    inv,                  \* the line items of generate_invoice on drawn inputs
    period,               \* BillingPeriodConfig on a drawn reference date
    bill,                 \* generate_invoice called twice on the same arguments
    fetch,                \* get_unattended_runs paging the steps of one process run
    win,                  \* the billing windows applied to the start time of a run
    send,                 \* send_qbo_invoices over the invoices of the day
    sync,                 \* sync_robocorp_processes_to_sql over the client table
    retry                 \* one call through retry_on_failure

batchVars == <<LOWER_CLIENT_ID, UPPER_CLIENT_ID, UPLOAD_TO_SHAREPOINT,
               CREATE_INVOICE, UPDATE_CLICKUP, table, run>>
moreVars == <<win, send, sync, retry>>
unitVars == <<inv, period, bill, fetch, moreVars>>
vars == <<batchVars, unitVars>>

(***************************************************************************)
(* Bounds of the model.                                                    *)
(***************************************************************************)
MaxClients == 3
MaxMinutes == 6
MaxRate == 3
MaxYears == 3
MaxSteps == 3
MaxSeconds == 121
MaxRetries == 2
MaxInvoices == 2

(***************************************************************************)
(* Program constants.                                                      *)
(***************************************************************************)
APD_CLIENT_ID == 10000
DEFAULT_CONSUMPTION_RATE == 50
DEFAULT_MAX_RETRIES == 3

\* Run 1 is the batch run; run 2 is a second run over the same inputs that
\* exists only in SpecDryRun.
Runs == {1, 2}
ClientNumbers == {10000, 10001, 10002, 10003}
\* The configured ranges <<LOWER_CLIENT_ID, UPPER_CLIENT_ID>>.
RangeConfigs == {<<10000, 10004>>, <<10001, 10003>>}
\* line 32: the net-30 allow-list of the configuration modelled.
NET_30_DAYS_CLIENTS == {10001}

Range(s) == {s[i] : i \in 1..Len(s)}

\* The items of the client table: a table keyed by client_number holds each
\* client number once.
RECURSIVE Tables(_)
Tables(n) ==
    IF n = 0 THEN {<<>>}
    ELSE LET shorter == Tables(n - 1)
         IN  shorter \cup
             {Append(p[1], p[2]) :
                p \in {q \in shorter \X ClientNumbers :
                         Len(q[1]) = n - 1 /\ q[2] \notin Range(q[1])}}

(***************************************************************************)
(* Calendar arithmetic, as datetime.replace and dateutil's relativedelta   *)
(* do it.                                                                  *)
(***************************************************************************)
IsLeap(y) == (y % 4 = 0 /\ y % 100 # 0) \/ y % 400 = 0

DaysInMonth(y, m) ==
    IF m = 2 THEN (IF IsLeap(y) THEN 29 ELSE 28)
    ELSE IF m \in {4, 6, 9, 11} THEN 30 ELSE 31

Min(a, b) == IF a < b THEN a ELSE b

\* A datetime, to the second.
DateTime(y, m, d, hh, mm, ss) ==
    [y |-> y, m |-> m, d |-> d, hh |-> hh, mm |-> mm, ss |-> ss]

\* dt + relativedelta(months=n) for n in -11..11: the month moves, the year
\* follows, and the day is clamped to the length of the month reached.
RelativeDeltaMonths(dt, n) ==
    LET raw == dt.m + n
        y == IF raw > 12 THEN dt.y + 1 ELSE IF raw < 1 THEN dt.y - 1 ELSE dt.y
        m == IF raw > 12 THEN raw - 12 ELSE IF raw < 1 THEN raw + 12 ELSE raw
    IN  [dt EXCEPT !.y = y, !.m = m, !.d = Min(dt.d, DaysInMonth(y, m))]

\* dt + relativedelta(days=-1)
MinusOneDay(dt) ==
    IF dt.d > 1 THEN [dt EXCEPT !.d = @ - 1]
    ELSE LET y == IF dt.m = 1 THEN dt.y - 1 ELSE dt.y
             m == IF dt.m = 1 THEN 12 ELSE dt.m - 1
         IN  [dt EXCEPT !.y = y, !.m = m, !.d = DaysInMonth(y, m)]

\* dt.replace(hour=hh, minute=mm, second=ss)
ReplaceTime(dt, hh, mm, ss) == [dt EXCEPT !.hh = hh, !.mm = mm, !.ss = ss]

\* date.toordinal(): the day number in the proleptic Gregorian calendar.
DaysBeforeYear(y) ==
    365 * (y - 1) + ((y - 1) \div 4) - ((y - 1) \div 100) + ((y - 1) \div 400)

RECURSIVE DaysBeforeMonth(_, _)
DaysBeforeMonth(y, m) ==
    IF m = 1 THEN 0 ELSE DaysBeforeMonth(y, m - 1) + DaysInMonth(y, m - 1)

Ordinal(dt) == DaysBeforeYear(dt.y) + DaysBeforeMonth(dt.y, dt.m) + dt.d

\* The order of datetimes: seconds since 2000-01-01T00:00:00.
Instant(dt) ==
    (Ordinal(dt) - Ordinal(DateTime(2000, 1, 1, 0, 0, 0))) * 86400
    + dt.hh * 3600 + dt.mm * 60 + dt.ss

\* str(n) of a natural number, as its characters.
DigitChars == <<"0", "1", "2", "3", "4", "5", "6", "7", "8", "9">>

RECURSIVE Digits(_)
Digits(n) ==
    IF n < 10 THEN <<DigitChars[n + 1]>>
    ELSE Digits(n \div 10) \o <<DigitChars[(n % 10) + 1]>>

\* lines 58-60
CurrentPeriodStart(reference_date) == reference_date

\* lines 62-66: relativedelta(months=1, days=-1) moves the month, then the day.
CurrentPeriodEnd(reference_date) ==
    ReplaceTime(MinusOneDay(RelativeDeltaMonths(reference_date, 1)), 23, 59, 59)

\* lines 68-70
PriorPeriodStart(reference_date) == RelativeDeltaMonths(reference_date, -1)

\* A slip that leaves the end of the prior period at midnight.
PriorPeriodEndAtMidnight(reference_date) == MinusOneDay(reference_date)

\* lines 72-76
PriorPeriodEnd(reference_date) == ReplaceTime(MinusOneDay(reference_date), 23, 59, 59)

\* A slip that pads the month of the label with a zero.
SharepointFileDatePadded(reference_date) ==
    Digits(PriorPeriodStart(reference_date).y) \o <<"-">>
    \o (IF PriorPeriodStart(reference_date).m < 10 THEN <<"0">> ELSE <<>>)
    \o Digits(PriorPeriodStart(reference_date).m)

\* lines 78-81: strftime("%Y-%-m"), the month without zero padding.
SharepointFileDate(reference_date) ==
    Digits(PriorPeriodStart(reference_date).y) \o <<"-">>
    \o Digits(PriorPeriodStart(reference_date).m)

\* datetime.replace(day=d) raises ValueError unless d is a day of the month.
ReplaceDayRaises(now, d) == d < 1 \/ d > DaysInMonth(now.y, now.m)

\* date + relativedelta(months=1): the next month, the day clamped to its end.
AddOneMonth(date) ==
    LET y == IF date.m = 12 THEN date.y + 1 ELSE date.y
        m == IF date.m = 12 THEN 1 ELSE date.m + 1
    IN  [y |-> y, m |-> m, d |-> Min(date.d, DaysInMonth(y, m))]

(***************************************************************************)
(* The task tracker's organization task, as send_data_to_clickup reads it. *)
(* A custom field is absent from the task, present without a "value" key   *)
(* ("novalue"), present with a value the conversion rejects ("bad"), or     *)
(* present with a usable value ("ok").                                      *)
(***************************************************************************)
Absent == [st |-> "absent", v |-> 0]
NoValue == [st |-> "novalue", v |-> 0]
Bad == [st |-> "bad", v |-> 0]
Ok(v) == [st |-> "ok", v |-> v]
AbsentS == [st |-> "absent", v |-> ""]
NoValueS == [st |-> "novalue", v |-> ""]
OkS(v) == [st |-> "ok", v |-> v]

\* int(custom_field.get("value", 0)) and float(custom_field.get("value", 0))
ConvRaises(f) == f.st = "bad"
Conv(f, default) == IF f.st = "absent" THEN default ELSE f.v

\* custom_field.get("type_config", "").get("options", [])[index].get("name", "")
\* with index = custom_field.get("value", ""): a list indexed by "" raises.
OptionRaises(f) == f.st \in {"novalue", "bad"}
Option(f) == IF f.st = "absent" THEN "None" ELSE f.v

NoTask ==
    [found |-> FALSE, prior |-> Absent, lifetime |-> Absent, rate |-> Absent,
     included |-> Absent, consumption |-> Absent, day |-> Absent,
     service |-> AbsentS, type |-> AbsentS, cc |-> AbsentS]

FullTask(day, included, lifetime) ==
    [found |-> TRUE, prior |-> Ok(0), lifetime |-> Ok(lifetime), rate |-> Ok(100),
     included |-> Ok(included), consumption |-> Ok(25), day |-> Ok(day),
     service |-> OkS("Managed Service"), type |-> OkS("Client"),
     cc |-> OkS("cc@client")]

\* Lines 343-392 of send_data_to_clickup: the defaults, then the fields of the
\* organization task whose "Account #" is the client number.
ResolveContractRaises(task) ==
    /\ task.found
    /\ \/ ConvRaises(task.lifetime) \/ ConvRaises(task.rate)
       \/ ConvRaises(task.included) \/ ConvRaises(task.consumption)
       \/ ConvRaises(task.day)
       \/ OptionRaises(task.service) \/ OptionRaises(task.type)

ResolveContract(task) ==
    [found |-> task.found,
     organization_task_id |-> task.found,
     robocorp_prior_usage_column_id |-> task.prior.st # "absent",
     robocorp_lifetime_usage_column_id |-> task.lifetime.st # "absent",
     robocorp_lifetime_usage |-> Conv(task.lifetime, 0),
     monthly_rate |-> Conv(task.rate, 0),
     included_minutes |-> Conv(task.included, 0),
     consumption_rate |-> Conv(task.consumption, DEFAULT_CONSUMPTION_RATE),
     day_to_bill |-> Conv(task.day, 0),
     service_type |-> Option(task.service),
     client_type |-> Option(task.type),
     billing_cc |-> IF task.cc.st = "ok" THEN task.cc.v ELSE ""]

(***************************************************************************)
(* generate_invoice, lines 237-313: the invoice payload.                   *)
(***************************************************************************)
\* lines 268-272
OverageMinutes(total_runtime_prior_month, included_minutes) ==
    IF total_runtime_prior_month > included_minutes
    THEN total_runtime_prior_month - included_minutes
    ELSE 0

\* lines 250-254
Description(service_type, client_type) ==
    IF service_type = "Managed Service" /\ client_type = "Client"
    THEN "Managed Automation Services"
    ELSE IF service_type = "Managed Service" /\ client_type = "Client (Maintenance)"
    THEN "Managed Automation Maintenance"
    ELSE ""

\* A slip that adds the overage line also when the overage is zero.
LineItemsOverageFromZero(monthly_rate, included_minutes, consumption_rate, total_runtime_prior_month, description) ==
    LET overage_minutes == OverageMinutes(total_runtime_prior_month, included_minutes)
        base == [kind |-> "BaseService", Amount |-> monthly_rate * 100,
                 Description |-> description]
        over == [kind |-> "Overage", Amount |-> overage_minutes * consumption_rate,
                 UnitPrice |-> consumption_rate, Qty |-> overage_minutes,
                 Description |-> "Runtime Overage"]
    IN  IF overage_minutes >= 0 THEN <<base, over>> ELSE <<base>>

\* A slip that bills the whole runtime on the overage line.
LineItemsBillsTotal(monthly_rate, included_minutes, consumption_rate, total_runtime_prior_month, description) ==
    LET overage_minutes == OverageMinutes(total_runtime_prior_month, included_minutes)
        base == [kind |-> "BaseService", Amount |-> monthly_rate * 100,
                 Description |-> description]
        over == [kind |-> "Overage",
                 Amount |-> total_runtime_prior_month * consumption_rate,
                 UnitPrice |-> consumption_rate, Qty |-> overage_minutes,
                 Description |-> "Runtime Overage"]
    IN  IF overage_minutes > 0 THEN <<base, over>> ELSE <<base>>

\* lines 274-299
LineItems(monthly_rate, included_minutes, consumption_rate, total_runtime_prior_month, description) ==
    LET overage_minutes == OverageMinutes(total_runtime_prior_month, included_minutes)
        base == [kind |-> "BaseService", Amount |-> monthly_rate * 100,
                 Description |-> description]
        over == [kind |-> "Overage", Amount |-> overage_minutes * consumption_rate,
                 UnitPrice |-> consumption_rate, Qty |-> overage_minutes,
                 Description |-> "Runtime Overage"]
    IN  IF overage_minutes > 0 THEN <<base, over>> ELSE <<base>>

\* lines 239-243
TxnDate(now, day_to_bill) == [y |-> now.y, m |-> now.m, d |-> day_to_bill]

DueDate(now, day_to_bill, net30) ==
    IF net30 THEN AddOneMonth(TxnDate(now, day_to_bill))
    ELSE TxnDate(now, day_to_bill)

\* lines 300-313
Invoice(client_number, contract, total_runtime_prior_month, now) ==
    [TxnDate |-> TxnDate(now, contract.day_to_bill),
     DueDate |-> DueDate(now, contract.day_to_bill,
                         client_number \in NET_30_DAYS_CLIENTS),
     Line |-> LineItems(contract.monthly_rate, contract.included_minutes,
                        contract.consumption_rate, total_runtime_prior_month,
                        Description(contract.service_type, contract.client_type)),
     BillEmailCc |-> contract.billing_cc]

(***************************************************************************)
(* process_all_clients, lines 88-189, as a sequential process.  A run is   *)
(* at one position (pc) and holds the locals of the loop iteration (cur).  *)
(* steps and calls record what the run did: the steps it completed and the *)
(* side-effecting calls it issued to the collaborators.                    *)
(***************************************************************************)
NoOutcome == [kind |-> "running", at |-> "", cause |-> ""]

NoDate == [y |-> 0, m |-> 0, d |-> 0]
NoInvoice == [TxnDate |-> NoDate, DueDate |-> NoDate, Line |-> <<>>, BillEmailCc |-> ""]

NoAssistant == [rows |-> FALSE, minutes |-> 0]
\* The report has no "Overage Calculation" sheet.
NoSheet == [present |-> FALSE, overage_minutes |-> 0, total_cost |-> 0]
NoUnattendedRuns == [prior_rows |-> FALSE, prior |-> 0, current_rows |-> FALSE, current |-> 0]

CurInit(client_number) ==
    [client_number |-> client_number,
     total_runtime_prior_month_unattended |-> 0,
     assistant |-> NoAssistant,
     unattended_runs |-> NoUnattendedRuns,
     total_runtime_prior_month |-> 0,
     contract |-> ResolveContract(NoTask),
     writes |-> <<>>,
     report_datastream |-> FALSE,
     overage_sheet |-> NoSheet,
     invoice |-> NoInvoice,
     invoice_json |-> FALSE]

\* snapshot: whether the snapshot CSV was found in the document store.
RunInit ==
    [pc |-> "start", idx |-> 0, cur |-> CurInit(0), steps |-> <<>>,
     calls |-> <<>>, outcome |-> NoOutcome, snapshot |-> "unknown"]
RunOff == [RunInit EXCEPT !.pc = "off"]

\* What the outside world can hold.
SnapshotTotals == {0, 3}
AssistantInputs == {NoAssistant, [rows |-> TRUE, minutes |-> 2]}
UnattendedRunInputs ==
    {NoUnattendedRuns,
     [prior_rows |-> TRUE, prior |-> 3, current_rows |-> FALSE, current |-> 0],
     [prior_rows |-> TRUE, prior |-> 3, current_rows |-> TRUE, current |-> 1]}
TaskInputs ==
    {NoTask, FullTask(15, 4, 7), FullTask(31, 0, 0),
     [FullTask(15, 4, 7) EXCEPT !.day = NoValue],
     [FullTask(15, 4, 7) EXCEPT !.included = Bad],
     [FullTask(15, 4, 7) EXCEPT !.consumption = Absent, !.cc = AbsentS]}
Nows == {[y |-> 2025, m |-> 2], [y |-> 2025, m |-> 12]}

\* An exception leaves process_all_clients: nothing in it catches one after
\* line 115.  The frame is unwound; the record keeps the client the run was
\* at.
Raise(s, at, cause) ==
    [s EXCEPT !.pc = "done",
              !.outcome = [kind |-> "raised", at |-> at, cause |-> cause],
              !.cur = CurInit(s.cur.client_number)]

\* The step of the current client returned.
Completed(s, step) ==
    [s EXCEPT !.steps = Append(@, <<s.cur.client_number, step>>)]

\* A side-effecting call to a collaborator returned.
Call(s, op, target) ==
    [s EXCEPT !.calls = Append(@, [op |-> op, client |-> s.cur.client_number,
                                   target |-> target])]

\* Locals that no later line of the iteration reads are forgotten: the code
\* overwrites each of them before it reads it again.
Forget(s, kept) ==
    [s EXCEPT !.cur = [f \in DOMAIN s.cur |->
                         IF f \in kept \cup {"client_number"} THEN s.cur[f]
                         ELSE CurInit(0)[f]]]

\* lines 97-115: the secrets and the client table; any exception is logged
\* and the function returns False.
InitInstancesStep(s, config_ok) ==
    IF config_ok THEN [s EXCEPT !.pc = "snapshot"]
    ELSE [s EXCEPT !.pc = "done",
                   !.outcome = [kind |-> "false", at |-> "init", cause |-> "config"]]

\* A slip that goes on with empty data when the snapshot CSV is absent.
SnapshotAbsentGoesOn(s, present, res) ==
    IF res # "ok" THEN Raise(s, "snapshot", "external")
    ELSE [s EXCEPT !.pc = "scan",
                   !.snapshot = IF present THEN "present" ELSE "absent"]

\* line 117 and lines 743-768: the snapshot CSV of the billing period.
GetUnattendedDataFromSharepointStep(s, present, res) ==
    IF res # "ok" THEN Raise(s, "snapshot", "external")
    ELSE IF ~present
    THEN Raise([s EXCEPT !.snapshot = "absent"], "snapshot", "snapshot_missing")
    ELSE [s EXCEPT !.pc = "scan", !.snapshot = "present"]

\* line 119: client_orgs_table.scan()['Items']
ScanStep(s, res) ==
    IF res # "ok" THEN Raise(s, "scan", "external")
    ELSE [s EXCEPT !.pc = "loop", !.idx = 1]

InRange(client_number) ==
    LOWER_CLIENT_ID <= client_number /\ client_number < UPPER_CLIENT_ID

\* lines 119-132: the loop head.
LoopHeadStep(s, has_key) ==
    IF s.idx > Len(table)
    THEN [s EXCEPT !.pc = "done",
                   !.outcome = [kind |-> "true", at |-> "", cause |-> ""]]
    ELSE LET client_number == table[s.idx]
         IN  IF ~has_key
             THEN Raise([s EXCEPT !.cur = CurInit(client_number)],
                        "api_key", "KeyError")
             ELSE IF ~InRange(client_number)
             THEN [s EXCEPT !.idx = @ + 1]
             ELSE IF client_number = APD_CLIENT_ID
             THEN [s EXCEPT !.idx = @ + 1]
             ELSE [s EXCEPT !.pc = "spreadsheet", !.cur = CurInit(client_number)]

\* line 140 and lines 411-433
GetUnattendedDataFromSpreadsheetStep(s, total) ==
    Completed([s EXCEPT !.pc = "assistant",
                   !.cur.total_runtime_prior_month_unattended = total],
              "spreadsheet")

\* lines 142-148 and 668-733
GetAssistantRunsStep(s, assistant, res) ==
    IF res # "ok" THEN Raise(s, "assistant", "external")
    ELSE Completed([s EXCEPT !.pc = "unattended", !.cur.assistant = assistant],
                   "assistant")

\* A slip that builds the report before the contract is resolved.
GetUnattendedRunsThenReport(s, unattended_runs, res) ==
    IF res # "ok" THEN Raise(s, "unattended", "external")
    ELSE Completed([s EXCEPT !.pc = "report",
                        !.cur.unattended_runs = unattended_runs,
                        !.cur.total_runtime_prior_month =
                            s.cur.assistant.minutes
                            + s.cur.total_runtime_prior_month_unattended],
              "unattended")

\* lines 150-153 and 435-499
GetUnattendedRunsStep(s, unattended_runs, res) ==
    IF res # "ok" THEN Raise(s, "unattended", "external")
    ELSE Completed([s EXCEPT !.pc = "clickup",
                        !.cur.unattended_runs = unattended_runs,
                        \* line 155
                        !.cur.total_runtime_prior_month =
                            s.cur.assistant.minutes
                            + s.cur.total_runtime_prior_month_unattended],
              "unattended")

\* A slip that overwrites the lifetime counter with the total of the period.
WriteBackOverwritesLifetime(contract, total_runtime_prior_month) ==
    <<[target |-> "Robocorp Lifetime",
       resolved |-> contract.organization_task_id
                    /\ contract.robocorp_lifetime_usage_column_id,
       value |-> total_runtime_prior_month],
      [target |-> "Robocorp Prior Month",
       resolved |-> contract.organization_task_id
                    /\ contract.robocorp_prior_usage_column_id,
       value |-> total_runtime_prior_month]>>

\* A slip that addresses both write-backs to the lifetime field.
WriteBackLifetimeTwice(contract, total_runtime_prior_month) ==
    LET w == [target |-> "Robocorp Lifetime",
              resolved |-> contract.organization_task_id
                           /\ contract.robocorp_lifetime_usage_column_id,
              value |-> contract.robocorp_lifetime_usage + total_runtime_prior_month]
    IN  <<w, [w EXCEPT !.value = total_runtime_prior_month]>>

\* lines 399-407: the two write-back calls, in order.
WriteBack(contract, total_runtime_prior_month) ==
    <<[target |-> "Robocorp Lifetime",
       \* the task id and the field id are not None
       resolved |-> contract.organization_task_id
                    /\ contract.robocorp_lifetime_usage_column_id,
       value |-> contract.robocorp_lifetime_usage + total_runtime_prior_month],
      [target |-> "Robocorp Prior Month",
       resolved |-> contract.organization_task_id
                    /\ contract.robocorp_prior_usage_column_id,
       value |-> total_runtime_prior_month]>>

\* A slip that resolves the contract only when the write-back is on.
SendDataToClickupDryDefaults(s, update, task, res) ==
    IF res = "get_tasks_fails" THEN Raise(s, "clickup", "external")
    ELSE IF ~update
    THEN Completed([s EXCEPT !.pc = "report", !.cur.contract = ResolveContract(NoTask)],
                   "clickup")
    ELSE IF ResolveContractRaises(task) THEN Raise(s, "clickup", "ValueError")
    ELSE
      LET contract == ResolveContract(task)
          w  == WriteBack(contract, s.cur.total_runtime_prior_month)
          s0 == [s EXCEPT !.cur.contract = contract]
          s1 == Call([s0 EXCEPT !.cur.writes = <<w[1]>>],
                     "set_custom_field_value", w[1].target)
          s2 == Call([s1 EXCEPT !.cur.writes = w],
                     "set_custom_field_value", w[2].target)
      IN  IF res = "write1_fails" THEN Raise(s0, "clickup", "external")
          ELSE IF res = "write2_fails" THEN Raise(s1, "clickup", "external")
          ELSE Completed([s2 EXCEPT !.pc = "report"], "clickup")

\* lines 158-160 and 323-409.  res: "ok", or the call that fails.
SendDataToClickupStep(s, update, task, res) ==
    IF res = "get_tasks_fails" THEN Raise(s, "clickup", "external")
    ELSE IF ResolveContractRaises(task) THEN Raise(s, "clickup", "ValueError")
    ELSE
      LET contract == ResolveContract(task)
          w  == WriteBack(contract, s.cur.total_runtime_prior_month)
          s0 == [s EXCEPT !.cur.contract = contract]
          s1 == Call([s0 EXCEPT !.cur.writes = <<w[1]>>],
                     "set_custom_field_value", w[1].target)
          s2 == Call([s1 EXCEPT !.cur.writes = w],
                     "set_custom_field_value", w[2].target)
      IN  IF ~update THEN Completed([s0 EXCEPT !.pc = "report"], "clickup")
          ELSE IF res = "write1_fails" THEN Raise(s0, "clickup", "external")
          ELSE IF res = "write2_fails" THEN Raise(s1, "clickup", "external")
          ELSE Completed([s2 EXCEPT !.pc = "report"], "clickup")

\* lines 504-518: whether the merged frame has a row.
HasRows(cur) ==
    \/ cur.assistant.rows
    \/ cur.unattended_runs.prior_rows
    \/ cur.unattended_runs.current_rows

\* lines 520-545: the pivot by process and month.  extract_process_name gives
\* None for the assistant rows, whose "Process Name" is a string and not a
\* dict, and pivot_table drops the rows with no index value: the pivot holds
\* the unattended runs only.
HasPivot(cur) == cur.unattended_runs.prior_rows \/ cur.unattended_runs.current_rows

\* lines 543-545: the Total row in the rightmost (latest) month column.
PivotTotal(cur) ==
    IF cur.unattended_runs.current_rows THEN cur.unattended_runs.current
    ELSE cur.unattended_runs.prior

\* lines 569-592: the rows "Overage Minutes" and "Total Overage Cost".
AddOverageCalculationSheet(included_minutes, consumption_rate, total_prior_month) ==
    LET overage_minutes == IF total_prior_month > included_minutes
                           THEN total_prior_month - included_minutes
                           ELSE 0
    IN  [present |-> TRUE, overage_minutes |-> overage_minutes,
         total_cost |-> overage_minutes * consumption_rate]

\* lines 516-518 and 561-562: the sheet is added to a report that is built,
\* when the pivot total is positive.
OverageSheet(cur) ==
    IF HasRows(cur) /\ PivotTotal(cur) > 0
    THEN AddOverageCalculationSheet(cur.contract.included_minutes,
                                    cur.contract.consumption_rate, PivotTotal(cur))
    ELSE NoSheet

\* A slip that builds the pivot of an empty frame.
BuildRuntimeReportRaisesOnEmpty(s) ==
    IF ~HasRows(s.cur) THEN Raise(s, "report", "KeyError")
    ELSE Forget(Completed([s EXCEPT !.pc = "invoice", !.cur.report_datastream = TRUE,
                                    !.cur.overage_sheet = OverageSheet(s.cur)],
                          "report"),
                {"total_runtime_prior_month", "contract", "writes", "report_datastream",
            "overage_sheet"})

\* line 162 and lines 501-518: no report when the merged frame is empty.
BuildRuntimeReportStep(s) ==
    Forget(Completed([s EXCEPT !.pc = "invoice",
                               !.cur.report_datastream = HasRows(s.cur),
                               !.cur.overage_sheet = OverageSheet(s.cur)],
                     "report"),
           {"total_runtime_prior_month", "contract", "writes", "report_datastream",
            "overage_sheet"})

\* lines 164-175 and 237-321
GenerateInvoiceStep(s, now, res) ==
    IF ReplaceDayRaises(now, s.cur.contract.day_to_bill)
    THEN Raise(s, "invoice", "ValueError")
    ELSE IF res = "query_fails" THEN Raise(s, "invoice", "external")
    ELSE
      LET s0 == [s EXCEPT !.cur.invoice =
                     Invoice(s.cur.client_number, s.cur.contract,
                             s.cur.total_runtime_prior_month, now)]
      IN  IF ~CREATE_INVOICE
          THEN Completed([s0 EXCEPT !.pc = "attach"], "invoice")
          ELSE IF res = "create_fails" THEN Raise(s0, "invoice", "external")
          ELSE Completed(Call([s0 EXCEPT !.pc = "attach", !.cur.invoice_json = TRUE],
                              "create_invoice", "Invoice"),
                         "invoice")

\* lines 177-178 and 224-235
AttachDetailRuntimeToInvoiceStep(s, res) ==
    LET kept == {"report_datastream", "invoice_json"}
    IN  IF ~(s.cur.report_datastream /\ s.cur.invoice_json)
        THEN Forget(Completed([s EXCEPT !.pc = "upload"], "attach"), kept)
        ELSE IF res # "ok" THEN Raise(s, "attach", "external")
        ELSE Forget(Completed(Call([s EXCEPT !.pc = "upload"],
                                   "upload_attachment", "invoice.pdf"),
                              "attach"),
                    kept)

\* lines 199-222: the three files, in order.
UploadedFiles == <<"assistant_processes", "unattended_processes", "runtime_report">>

RECURSIVE Upload(_, _)
Upload(s, n) ==
    IF n = 0 THEN s
    ELSE Call(Upload(s, n - 1), "upload_file_to_sharepoint", UploadedFiles[n])

\* A slip that uploads the files whatever UPLOAD_TO_SHAREPOINT says.
SendFilesIgnoresToggle(s, fails_at) ==
    IF fails_at = 4 THEN Raise(s, "upload", "external")
    ELSE IF fails_at \in 1..3 THEN Raise(Upload(s, fails_at - 1), "upload", "external")
    ELSE Forget(Completed([Upload(s, 3) EXCEPT !.pc = "loop", !.idx = @ + 1], "upload"),
                {})

\* lines 180-186 and 191-222.  fails_at: 0 when no call fails, 1..3 the upload
\* that fails, 4 the token or the drive lookup.
SendFilesToSharepointStep(s, fails_at) ==
    IF fails_at = 4 THEN Raise(s, "upload", "external")
    ELSE IF ~UPLOAD_TO_SHAREPOINT
    THEN Forget(Completed([s EXCEPT !.pc = "loop", !.idx = @ + 1], "upload"), {})
    ELSE IF fails_at \in 1..3 THEN Raise(Upload(s, fails_at - 1), "upload", "external")
    ELSE Forget(Completed([Upload(s, 3) EXCEPT !.pc = "loop", !.idx = @ + 1], "upload"),
                {})

(***************************************************************************)
(* The actions.  The runs that are at the same position take a step        *)
(* together and get the same answers from the outside world: the values    *)
(* read, and whether a call to a collaborator fails.                       *)
(***************************************************************************)
configVars == <<LOWER_CLIENT_ID, UPPER_CLIENT_ID, UPLOAD_TO_SHAREPOINT,
                CREATE_INVOICE, UPDATE_CLICKUP, table>>

At(p) == {r \in Runs : run[r].pc = p}
Leader(p) == CHOOSE r \in At(p) : \A q \in At(p) : r <= q
Movers(p) == {r \in At(p) : run[r].idx = run[Leader(p)].idx}

InitInstances ==
    /\ At("start") # {}
    /\ \E config_ok \in BOOLEAN :
         run' = [r \in Runs |->
                   IF r \in Movers("start")
                   THEN InitInstancesStep(run[r], config_ok) ELSE run[r]]
    /\ UNCHANGED <<configVars, unitVars>>

GetUnattendedDataFromSharepoint ==
    /\ At("snapshot") # {}
    /\ \E present \in BOOLEAN : \E res \in {"ok", "fails"} :
         run' = [r \in Runs |->
                   IF r \in Movers("snapshot")
                   THEN GetUnattendedDataFromSharepointStep(run[r], present, res)
                   ELSE run[r]]
    /\ UNCHANGED <<configVars, unitVars>>

Scan ==
    /\ At("scan") # {}
    /\ \E res \in {"ok", "fails"} :
         run' = [r \in Runs |->
                   IF r \in Movers("scan") THEN ScanStep(run[r], res) ELSE run[r]]
    /\ UNCHANGED <<configVars, unitVars>>

LoopHead ==
    /\ At("loop") # {}
    /\ \E has_key \in BOOLEAN :
         run' = [r \in Runs |->
                   IF r \in Movers("loop") THEN LoopHeadStep(run[r], has_key)
                   ELSE run[r]]
    /\ UNCHANGED <<configVars, unitVars>>

GetUnattendedDataFromSpreadsheet ==
    /\ At("spreadsheet") # {}
    /\ \E total \in SnapshotTotals :
         run' = [r \in Runs |->
                   IF r \in Movers("spreadsheet")
                   THEN GetUnattendedDataFromSpreadsheetStep(run[r], total)
                   ELSE run[r]]
    /\ UNCHANGED <<configVars, unitVars>>

GetAssistantRuns ==
    /\ At("assistant") # {}
    /\ \E assistant \in AssistantInputs :
       \E res \in {"ok", "fails"} :
         run' = [r \in Runs |->
                   IF r \in Movers("assistant")
                   THEN GetAssistantRunsStep(run[r], assistant, res)
                   ELSE run[r]]
    /\ UNCHANGED <<configVars, unitVars>>

GetUnattendedRuns ==
    /\ At("unattended") # {}
    /\ \E unattended_runs \in UnattendedRunInputs :
       \E res \in {"ok", "fails"} :
         run' = [r \in Runs |->
                   IF r \in Movers("unattended")
                   THEN GetUnattendedRunsStep(run[r], unattended_runs, res)
                   ELSE run[r]]
    /\ UNCHANGED <<configVars, unitVars>>

SendDataToClickup ==
    /\ At("clickup") # {}
    /\ \E task \in TaskInputs :
       \E res \in {"ok", "get_tasks_fails", "write1_fails", "write2_fails"} :
         run' = [r \in Runs |->
                   IF r \in Movers("clickup")
                   THEN SendDataToClickupStep(run[r], UPDATE_CLICKUP[r], task, res)
                   ELSE run[r]]
    /\ UNCHANGED <<configVars, unitVars>>

BuildRuntimeReport ==
    /\ At("report") # {}
    /\ run' = [r \in Runs |->
                 IF r \in Movers("report") THEN BuildRuntimeReportStep(run[r])
                 ELSE run[r]]
    /\ UNCHANGED <<configVars, unitVars>>

GenerateInvoice ==
    /\ At("invoice") # {}
    /\ \E now \in Nows :
       \E res \in {"ok", "query_fails", "create_fails"} :
         run' = [r \in Runs |->
                   IF r \in Movers("invoice")
                   THEN GenerateInvoiceStep(run[r], now, res) ELSE run[r]]
    /\ UNCHANGED <<configVars, unitVars>>

AttachDetailRuntimeToInvoice ==
    /\ At("attach") # {}
    /\ \E res \in {"ok", "fails"} :
         run' = [r \in Runs |->
                   IF r \in Movers("attach")
                   THEN AttachDetailRuntimeToInvoiceStep(run[r], res)
                   ELSE run[r]]
    /\ UNCHANGED <<configVars, unitVars>>

SendFilesToSharepoint ==
    /\ At("upload") # {}
    /\ \E fails_at \in 0..4 :
         run' = [r \in Runs |->
                   IF r \in Movers("upload")
                   THEN SendFilesToSharepointStep(run[r], fails_at)
                   ELSE run[r]]
    /\ UNCHANGED <<configVars, unitVars>>

(***************************************************************************)
(* The invoice builder on its own: the line items of generate_invoice      *)
(* applied to inputs drawn from bounded sets.                              *)
(***************************************************************************)
NoInv == [stage |-> "idle", monthly_rate |-> 0, included_minutes |-> 0,
          consumption_rate |-> 0, total_runtime_prior_month |-> 0, Line |-> <<>>]

InvoiceInputs ==
    {[stage |-> "input", monthly_rate |-> mr, included_minutes |-> im,
      consumption_rate |-> 25 * cr, total_runtime_prior_month |-> t, Line |-> <<>>] :
        mr \in {0, 100}, im \in 0..MaxMinutes, cr \in 0..MaxRate, t \in 0..MaxMinutes}
    \cup
    {[stage |-> "input", monthly_rate |-> 100, included_minutes |-> 1000,
      consumption_rate |-> 50, total_runtime_prior_month |-> 1250, Line |-> <<>>]}

BuildLineItems ==
    /\ inv.stage = "input"
    /\ inv' = [inv EXCEPT
                 !.stage = "built",
                 !.Line = LineItems(inv.monthly_rate, inv.included_minutes,
                                    inv.consumption_rate,
                                    inv.total_runtime_prior_month, "")]
    /\ UNCHANGED <<batchVars, period, bill, fetch, moreVars>>

(***************************************************************************)
(* BillingPeriodConfig on its own, lines 34-86: the reference date is the  *)
(* first day of the current month, or any date given by                    *)
(* BILLING_REFERENCE_DATE, at 00:00:00.                                    *)
(***************************************************************************)
NoPeriod == [stage |-> "idle"]

ReferenceDates ==
    {DateTime(y, m, d, 0, 0, 0) :
        y \in 2023..(2023 + MaxYears), m \in 1..12, d \in {1, 15}}

PeriodInputs == {[stage |-> "input", reference_date |-> ref] : ref \in ReferenceDates}

DerivePeriods ==
    /\ period.stage = "input"
    /\ period' = [stage |-> "built",
                  reference_date |-> period.reference_date,
                  current_period_start |-> CurrentPeriodStart(period.reference_date),
                  current_period_end |-> CurrentPeriodEnd(period.reference_date),
                  prior_period_start |-> PriorPeriodStart(period.reference_date),
                  prior_period_end |-> PriorPeriodEnd(period.reference_date),
                  sharepoint_file_date |-> SharepointFileDate(period.reference_date)]
    /\ UNCHANGED <<batchVars, inv, bill, fetch, moreVars>>

(***************************************************************************)
(* generate_invoice on its own, lines 237-313, called twice with the same  *)
(* arguments.  Each call reads the clock (line 239).                       *)
(***************************************************************************)
NoBill == [stage |-> "idle"]

BillNows == {[y |-> y, m |-> m] : y \in {2024, 2025}, m \in 1..12}

BillInputs ==
    {[stage |-> "input", client_number |-> c,
      contract |-> ResolveContract(FullTask(day, 4, 7)),
      total_runtime_prior_month |-> 6] :
        c \in {10001, 10002}, day \in 1..31}

\* lines 239-313: the payload, or the ValueError of line 239.
GenerateInvoiceResult(client_number, contract, total_runtime_prior_month, now) ==
    IF ReplaceDayRaises(now, contract.day_to_bill)
    THEN [raised |-> TRUE, now |-> now, payload |-> NoInvoice]
    ELSE [raised |-> FALSE, now |-> now,
          payload |-> Invoice(client_number, contract, total_runtime_prior_month, now)]

GenerateInvoiceFirst ==
    /\ bill.stage = "input"
    /\ \E now \in BillNows :
         bill' = [stage |-> "once", client_number |-> bill.client_number,
                  contract |-> bill.contract,
                  total_runtime_prior_month |-> bill.total_runtime_prior_month,
                  first |-> GenerateInvoiceResult(bill.client_number, bill.contract,
                                                  bill.total_runtime_prior_month, now)]
    /\ UNCHANGED <<batchVars, inv, period, fetch, moreVars>>

GenerateInvoiceSecond ==
    /\ bill.stage = "once"
    /\ \E now \in BillNows :
         bill' = [stage |-> "twice", client_number |-> bill.client_number,
                  contract |-> bill.contract,
                  total_runtime_prior_month |-> bill.total_runtime_prior_month,
                  first |-> bill.first,
                  second |-> GenerateInvoiceResult(bill.client_number, bill.contract,
                                                   bill.total_runtime_prior_month, now)]
    /\ UNCHANGED <<batchVars, inv, period, fetch, moreVars>>

(***************************************************************************)
(* The runtime of one run on its own: the step runs of one unattended      *)
(* process run, paged and rounded (get_unattended_runs, lines 474-497),    *)
(* and the duration of one assistant run (get_assistant_runs, lines        *)
(* 711-716).                                                               *)
(***************************************************************************)
NoFetch == [stage |-> "idle"]

\* step['duration']: None, or a number of seconds.
NullDuration == [null |-> TRUE, seconds |-> 0]
Seconds(d) == [null |-> FALSE, seconds |-> d]

StepDurations == {NullDuration, Seconds(0), Seconds(1), Seconds(60), Seconds(61)}

RECURSIVE StepLists(_)
StepLists(n) ==
    IF n = 0 THEN {<<>>}
    ELSE LET shorter == StepLists(n - 1)
         IN  shorter \cup
             {Append(p[1], p[2]) :
                p \in {q \in shorter \X StepDurations : Len(q[1]) = n - 1}}

\* The steps of the process run, and how many of them the API gives per page.
FetchInputs ==
    {[stage |-> "paging", steps |-> l, limit |-> k, offset |-> 0, attempts |-> 0,
      log |-> <<>>, unattended_run_list |-> <<>>, rounded_minutes |-> 0] :
        l \in StepLists(MaxSteps), k \in {1, 2}}

AssistantRunInputs ==
    {[stage |-> "assistant_input", duration |-> d] : d \in 0..MaxSeconds}

FetchStages == {"paging", "sleep", "raised", "round", "done"}

\* A slip that counts every started minute (60 seconds give 2).
RoundsDownPlusOne(x) == (x \div 60) + 1

\* math.ceil(x / 60), lines 496 and 712-713
RoundUpToMinute(x) == -((-x) \div 60)

\* lines 492-496: the steps of a process run; no duration contributes nothing.
RECURSIVE RoundedMinutes(_)
RoundedMinutes(unattended_run_list) ==
    IF unattended_run_list = <<>> THEN 0
    ELSE LET step == Head(unattended_run_list)
         IN  (IF step.null THEN 0 ELSE RoundUpToMinute(step.seconds))
             + RoundedMinutes(Tail(unattended_run_list))

\* lines 488-490: the page is added and the next page, if any, is due.
\* log: the number of requests each page took.
ReceiveStepRuns(f) ==
    LET last == Min(f.offset + f.limit, Len(f.steps))
        data == SubSeq(f.steps, f.offset + 1, last)
        has_more == last < Len(f.steps)
    IN  [f EXCEPT !.unattended_run_list = @ \o data,
                  !.offset = last,
                  !.log = Append(@, f.attempts),
                  !.attempts = 0,
                  !.stage = IF has_more THEN "paging" ELSE "round"]

\* lines 481-483: the request of a page; a RequestException leads to the sleep.
RequestStepRunsStep(f, ok) ==
    IF ok THEN ReceiveStepRuns([f EXCEPT !.attempts = 1])
    ELSE [f EXCEPT !.stage = "sleep", !.attempts = 1]

\* A slip that keeps retrying a page that fails again.
RetryAgainOnFailure(f, ok) ==
    IF ok THEN ReceiveStepRuns([f EXCEPT !.attempts = @ + 1])
    ELSE IF f.attempts < 3 THEN [f EXCEPT !.stage = "sleep", !.attempts = @ + 1]
    ELSE [f EXCEPT !.stage = "raised", !.attempts = @ + 1]

\* lines 484-486: after 15 seconds the request is made again, outside any try.
RetryStepRunsStep(f, ok) ==
    IF ok THEN ReceiveStepRuns([f EXCEPT !.attempts = @ + 1])
    ELSE [f EXCEPT !.stage = "raised", !.attempts = @ + 1]

RequestStepRuns ==
    /\ fetch.stage = "paging"
    /\ \E ok \in BOOLEAN : fetch' = RequestStepRunsStep(fetch, ok)
    /\ UNCHANGED <<batchVars, inv, period, bill, moreVars>>

RetryStepRuns ==
    /\ fetch.stage = "sleep"
    /\ \E ok \in BOOLEAN : fetch' = RetryStepRunsStep(fetch, ok)
    /\ UNCHANGED <<batchVars, inv, period, bill, moreVars>>

\* lines 492-497
RoundSteps ==
    /\ fetch.stage = "round"
    /\ fetch' = [fetch EXCEPT !.stage = "done",
                              !.rounded_minutes = RoundedMinutes(fetch.unattended_run_list)]
    /\ UNCHANGED <<batchVars, inv, period, bill, moreVars>>

\* lines 711-716
RoundAssistantRun ==
    /\ fetch.stage = "assistant_input"
    /\ fetch' = [stage |-> "assistant_done", duration |-> fetch.duration,
                 runtime |-> RoundUpToMinute(fetch.duration)]
    /\ UNCHANGED <<batchVars, inv, period, bill, moreVars>>

(***************************************************************************)
(* retry_on_failure, hello_world/apd_quickbooksonline.py lines 37-105: the *)
(* wrapper around one request method of QuickBooksOnline, applied to the   *)
(* answers the accounting platform gives to the successive attempts.       *)
(***************************************************************************)
NoRetry == [stage |-> "idle"]

\* What one attempt of the wrapped request meets.
Answered == [kind |-> "ok", status |-> 200]
HTTPError(status) == [kind |-> "HTTPError", status |-> status]
ConnectionError == [kind |-> "ConnectionError", status |-> 0]
Timeout == [kind |-> "Timeout", status |-> 0]

Responses ==
    {Answered, ConnectionError, Timeout}
    \cup {HTTPError(status) : status \in {400, 401, 403, 404, 429, 503}}

\* line 40
RETRYABLE_STATUSES == {429, 500, 502, 503, 504}

\* lines 71-81: the exception raised for a status that is not retried.
ConvertedException(status_code) ==
    IF status_code = 401 \/ status_code = 403 THEN "QBOAuthError"
    ELSE IF status_code = 429 THEN "QBORateLimitError"
    ELSE IF status_code = 400 THEN "QBOValidationError"
    ELSE IF status_code >= 500 THEN "QBOServerError"
    ELSE "HTTPError"

\* lines 16-34: the exceptions that are QBOError.
QBOErrors ==
    {"QBOError", "QBOAuthError", "QBORateLimitError", "QBOValidationError",
     "QBOServerError"}

\* How a call through the wrapper ends: kind is "returned" (line 49),
\* "raised", or "fell_through" when the wrapper runs off its end and gives
\* None (after line 103).
Ended(kind, exception, w) ==
    [kind |-> kind, exception |-> exception, calls |-> w.calls,
     refreshes |-> w.refreshes, sleeps |-> w.sleeps]

\* lines 46-103: the loop from the given attempt on.
RECURSIVE Wrapper(_, _, _, _, _)
Wrapper(max_retries, responses, refresh_ok, attempt, w) ==
    IF attempt > max_retries
    THEN \* lines 101-103
         IF w.last_exception # "None" THEN Ended("raised", w.last_exception, w)
         ELSE Ended("fell_through", "None", w)
    ELSE
      LET r  == responses[attempt + 1]
          w1 == [w EXCEPT !.calls = @ + 1]
          retried == [w1 EXCEPT !.sleeps = @ + 1, !.last_exception = r.kind]
      IN  IF r.kind = "ok" THEN Ended("returned", "None", w1)
          ELSE IF r.kind = "HTTPError"
          THEN IF r.status = 401 /\ attempt = 0
               THEN \* lines 54-61
                    IF refresh_ok
                    THEN Wrapper(max_retries, responses, refresh_ok, attempt + 1,
                                 [w1 EXCEPT !.refreshes = @ + 1])
                    ELSE Ended("raised", "QBOAuthError",
                               [w1 EXCEPT !.refreshes = @ + 1])
               ELSE IF r.status \in RETRYABLE_STATUSES /\ attempt < max_retries
               THEN Wrapper(max_retries, responses, refresh_ok, attempt + 1, retried)
               ELSE Ended("raised", ConvertedException(r.status), w1)
          ELSE \* lines 83-99
               IF attempt < max_retries
               THEN Wrapper(max_retries, responses, refresh_ok, attempt + 1, retried)
               ELSE Ended("raised", "QBOError", w1)

RetryOnFailure(max_retries, responses, refresh_ok) ==
    Wrapper(max_retries, responses, refresh_ok, 0,
            [calls |-> 0, refreshes |-> 0, sleeps |-> 0, last_exception |-> "None"])

CallWrapped ==
    /\ retry.stage = "input"
    /\ retry' = [stage |-> "ended",
                 max_retries |-> retry.max_retries,
                 responses |-> retry.responses,
                 refresh_ok |-> retry.refresh_ok,
                 result |-> RetryOnFailure(retry.max_retries, retry.responses,
                                           retry.refresh_ok)]
    /\ UNCHANGED <<batchVars, inv, period, bill, fetch, win, send, sync>>

(***************************************************************************)
(* send_qbo_invoices, shared/process_and_send_qbo_invoices.py lines 41-87: *)
(* the invoices dated today are sent one by one and summarised in one      *)
(* email.                                                                  *)
(***************************************************************************)
NoSend == [stage |-> "idle"]

\* line 18: the excluded list of the configuration modelled.
EXCLUDED_CUSTOMERS == {"Excluded Co"}

\* The invoices the query of line 43 returns; the Id is the position.
RECURSIVE InvoiceLists(_)
InvoiceLists(n) ==
    IF n = 0 THEN {<<>>}
    ELSE LET shorter == InvoiceLists(n - 1)
         IN  shorter \cup
             {Append(l, [Id |-> n, Name |-> name, TotalAmt |-> amt]) :
                l \in {q \in shorter : Len(q) = n - 1},
                name \in {"Acme", "Excluded Co"}, amt \in {0, 100}}

SendInputs ==
    {[stage |-> "query", at |-> "", invoices |-> l, idx |-> 0, invoice_rows |-> <<>>,
      send_calls |-> <<>>, summary |-> <<>>, result |-> "None"] :
        l \in InvoiceLists(MaxInvoices)}

\* The answers met by the attempts of one send_invoice call.
AllAttempts(r) == [i \in 1..(DEFAULT_MAX_RETRIES + 1) |-> r]
SendResponses ==
    {AllAttempts(Answered), [AllAttempts(Answered) EXCEPT ![1] = HTTPError(401)],
     AllAttempts(HTTPError(400)), AllAttempts(HTTPError(404)),
     AllAttempts(HTTPError(503)), AllAttempts(Timeout)}

\* lines 42-46
QueryInvoicesStep(s, res) ==
    IF res # "ok" THEN [s EXCEPT !.stage = "raised", !.at = "query_invoices"]
    ELSE IF s.invoices = <<>> THEN [s EXCEPT !.stage = "done", !.result = "True"]
    ELSE [s EXCEPT !.stage = "loop", !.idx = 1]

Row(s, status) ==
    [s EXCEPT !.invoice_rows = Append(@, [Id |-> s.invoices[s.idx].Id,
                                          Status |-> status]),
              !.idx = @ + 1,
              !.stage = IF s.idx = Len(s.invoices) THEN "email" ELSE "loop"]

\* lines 50-72: one invoice of the loop.
SendInvoiceStep(s, responses, refresh_ok) ==
    LET invoice == s.invoices[s.idx]
    IN  IF invoice.TotalAmt = 0 THEN Row(s, "Zero Amount")
        ELSE IF invoice.Name \in EXCLUDED_CUSTOMERS
        THEN Row(s, "Excluded - Do Not Send")
        ELSE
          LET sent == RetryOnFailure(DEFAULT_MAX_RETRIES, responses, refresh_ok)
              s1   == [s EXCEPT !.send_calls = Append(@, invoice.Id)]
          IN  IF sent.kind # "raised" THEN Row(s1, "Sent")
              \* line 68: except quickbooks_online.QBOError
              ELSE IF sent.exception \in QBOErrors THEN Row(s1, "Error")
              ELSE [s1 EXCEPT !.stage = "raised", !.at = "send_invoice"]

\* lines 73-87 and 89-115
SendEmailStep(s, issues) ==
    [s EXCEPT !.stage = "done", !.summary = s.invoice_rows,
              !.result = IF issues THEN "False" ELSE "True"]

QueryInvoices ==
    /\ send.stage = "query"
    /\ \E res \in {"ok", "fails"} : send' = QueryInvoicesStep(send, res)
    /\ UNCHANGED <<batchVars, inv, period, bill, fetch, win, sync, retry>>

SendInvoice ==
    /\ send.stage = "loop"
    /\ \E responses \in SendResponses : \E refresh_ok \in BOOLEAN :
         send' = SendInvoiceStep(send, responses, refresh_ok)
    /\ UNCHANGED <<batchVars, inv, period, bill, fetch, win, sync, retry>>

SendEmail ==
    /\ send.stage = "email"
    /\ \E issues \in BOOLEAN : send' = SendEmailStep(send, issues)
    /\ UNCHANGED <<batchVars, inv, period, bill, fetch, win, sync, retry>>

(***************************************************************************)
(* sync_robocorp_processes_to_sql, shared/sync_robocorp_processes.py lines *)
(* 15-82, with _sync_client_processes (124-168) and _upsert_processes      *)
(* (206-252).  The database is the set of committed rows and the rows      *)
(* executed in the open transaction of the one connection.                 *)
(***************************************************************************)
NoSync == [stage |-> "idle"]

\* The processes and assistants of a workspace that has some.
ProcessIds == {1, 2}

EmptyDatabase == [committed |-> {}, pending |-> {}]

SyncInputs ==
    {[stage |-> "start", at |-> "", clients |-> t, idx |-> 0, success_count |-> 0,
      error_count |-> 0, log |-> <<>>, db |-> EmptyDatabase, result |-> "None"] :
        t \in Tables(MaxClients)}

\* What one client meets: the API fails, the workspace has no process, or it
\* has rows and the upsert fails at the execute of row fails_at (1, 2), at the
\* commit (3), or not at all (0).
SyncOutcomes ==
    {<<"api_fails", 0>>, <<"no_rows", 0>>} \cup {<<"rows", k>> : k \in 0..3}

\* A slip that leaves the executed rows in the open transaction.
UpsertWithoutRollback(db, client_number, fails_at) ==
    LET executed == {<<client_number, k>> :
                       k \in {j \in ProcessIds : fails_at = 0 \/ j < fails_at}}
    IN  IF fails_at = 0
        THEN [raised |-> FALSE,
              db |-> [committed |-> db.committed \cup db.pending \cup executed,
                      pending |-> {}]]
        ELSE [raised |-> TRUE,
              db |-> [committed |-> db.committed,
                      pending |-> db.pending \cup executed]]

\* lines 231-252: execute every row, commit; on an exception roll back and
\* raise it again.
UpsertProcesses(db, client_number, fails_at) ==
    LET executed == {<<client_number, k>> :
                       k \in {j \in ProcessIds : fails_at = 0 \/ j < fails_at}}
    IN  IF fails_at = 0
        THEN [raised |-> FALSE,
              db |-> [committed |-> db.committed \cup db.pending \cup executed,
                      pending |-> {}]]
        ELSE [raised |-> TRUE,
              db |-> [committed |-> db.committed, pending |-> {}]]

\* lines 124-168
SyncClientProcesses(db, client_number, outcome) ==
    IF outcome[1] = "api_fails" THEN [raised |-> TRUE, db |-> db]
    ELSE IF outcome[1] = "no_rows" THEN [raised |-> FALSE, db |-> db]
    ELSE UpsertProcesses(db, client_number, outcome[2])

\* lines 24-53: the configuration, the AWS resources, the connection and the
\* scan of the client table; each failure returns False.
SyncStartStep(s, res) ==
    IF res # "ok" THEN [s EXCEPT !.stage = "returned", !.at = res, !.result = "False"]
    ELSE [s EXCEPT !.stage = "loop", !.idx = 1]

\* lines 55-82: one client of the loop, or the return at its end.
SyncLoopStep(s, has_key, outcome) ==
    IF s.idx > Len(s.clients)
    THEN [s EXCEPT !.stage = "returned", !.at = "end",
                   !.result = IF s.error_count = 0 THEN "True" ELSE "False"]
    ELSE
      LET client_number == s.clients[s.idx]
          s1 == [s EXCEPT !.idx = @ + 1,
                          !.log = Append(@, [client_number |-> client_number,
                                             has_key |-> has_key,
                                             outcome |-> IF has_key THEN outcome
                                                         ELSE <<"skipped", 0>>])]
          synced == SyncClientProcesses(s.db, client_number, outcome)
      IN  IF ~has_key THEN [s1 EXCEPT !.error_count = @ + 1]
          ELSE IF synced.raised
          THEN [s1 EXCEPT !.error_count = @ + 1, !.db = synced.db]
          ELSE [s1 EXCEPT !.success_count = @ + 1, !.db = synced.db]

SyncStart ==
    /\ sync.stage = "start"
    /\ \E res \in {"ok", "config_fails", "aws_fails", "connect_fails", "scan_fails"} :
         sync' = SyncStartStep(sync, res)
    /\ UNCHANGED <<batchVars, inv, period, bill, fetch, win, send, retry>>

SyncLoop ==
    /\ sync.stage = "loop"
    /\ \E has_key \in BOOLEAN : \E outcome \in SyncOutcomes :
         sync' = SyncLoopStep(sync, has_key, outcome)
    /\ UNCHANGED <<batchVars, inv, period, bill, fetch, win, send, retry>>

(***************************************************************************)
(* The billing windows on their own: the filters of get_assistant_runs     *)
(* (lines 701-705) and of get_unattended_runs (lines 463-467) applied to   *)
(* the start time of one run, for the batch run of one month and for the   *)
(* batch runs of consecutive months.                                       *)
(***************************************************************************)
NoWin == [stage |-> "idle"]

\* The reference dates of the monthly batch runs.
MonthlyRuns == {DateTime(y, m, 1, 0, 0, 0) : y \in {2024, 2025}, m \in 1..12}

\* started_at as the usage platform gives it, to the millisecond.
StartTimes ==
    {[y |-> y, m |-> m, d |-> d, hh |-> t[1], mm |-> t[2], ss |-> t[3], ms |-> ms] :
        y \in {2024, 2025}, m \in 1..12, d \in {1, 15, 28},
        t \in {<<0, 0, 0>>, <<12, 0, 0>>, <<23, 59, 59>>}, ms \in {0, 500}}
    \cup
    {[y |-> y, m |-> m, d |-> DaysInMonth(y, m), hh |-> 23, mm |-> 59, ss |-> 59,
      ms |-> ms] :
        y \in {2024, 2025}, m \in 1..12, ms \in {0, 500}}

\* The fraction of a second of a datetime; the period boundaries have none.
Frac(dt) == IF "ms" \in DOMAIN dt THEN dt.ms ELSE 0

\* a <= b on datetimes
NotAfter(a, b) ==
    \/ Instant(a) < Instant(b)
    \/ Instant(a) = Instant(b) /\ Frac(a) <= Frac(b)

\* A slip that leaves out the runs started at the last instant of the window.
AssistantKeptBeforeEnd(started_at, reference_date) ==
    /\ NotAfter(PriorPeriodStart(reference_date), started_at)
    /\ ~NotAfter(PriorPeriodEnd(reference_date), started_at)

\* lines 701-705, with the bounds passed at lines 143-144
AssistantKept(started_at, reference_date) ==
    /\ NotAfter(PriorPeriodStart(reference_date), started_at)
    /\ NotAfter(started_at, PriorPeriodEnd(reference_date))

\* lines 463-467
UnattendedKept(started_at, reference_date) ==
    /\ NotAfter(PriorPeriodStart(reference_date), started_at)
    /\ NotAfter(started_at, CurrentPeriodEnd(reference_date))

\* One assistant run and one unattended process run, each of 61 seconds,
\* started at started_at: what the batch run of reference_date keeps of them,
\* and which of the monthly batch runs bill the assistant run.
ApplyWindows ==
    /\ win.stage = "input"
    /\ LET a == AssistantKept(win.started_at, win.reference_date)
           u == UnattendedKept(win.started_at, win.reference_date)
       IN  win' = [stage |-> "filtered",
                   reference_date |-> win.reference_date,
                   started_at |-> win.started_at,
                   assistant_kept |-> a,
                   unattended_kept |-> u,
                   \* line 719
                   total_runtime_prior_month_assistant |->
                       IF a THEN RoundUpToMinute(61) ELSE 0,
                   \* the rows of the frame returned at line 499
                   unattended_rows |-> IF u THEN 1 ELSE 0,
                   billed_by |-> {ref \in MonthlyRuns :
                                    AssistantKept(win.started_at, ref)}]
    /\ UNCHANGED <<batchVars, inv, period, bill, fetch, send, sync, retry>>




(***************************************************************************)
(* The specifications.                                                     *)
(***************************************************************************)
IdleMore == win = NoWin /\ send = NoSend /\ sync = NoSync /\ retry = NoRetry

IdleUnits == inv = NoInv /\ period = NoPeriod /\ bill = NoBill /\ fetch = NoFetch

InitConfig ==
    /\ \E range \in RangeConfigs :
         LOWER_CLIENT_ID = range[1] /\ UPPER_CLIENT_ID = range[2]
    /\ UPLOAD_TO_SHAREPOINT \in BOOLEAN
    /\ CREATE_INVOICE \in BOOLEAN
    /\ table \in Tables(MaxClients)

\* One batch run.
Init ==
    /\ InitConfig
    /\ UPDATE_CLICKUP \in {f \in [Runs -> BOOLEAN] : f[2] = FALSE}
    /\ run = [r \in Runs |-> IF r = 1 THEN RunInit ELSE RunOff]
    /\ inv = NoInv /\ period = NoPeriod /\ bill = NoBill /\ fetch = NoFetch
    /\ IdleMore

Next ==
    \/ InitInstances
    \/ GetUnattendedDataFromSharepoint
    \/ Scan
    \/ LoopHead
    \/ GetUnattendedDataFromSpreadsheet
    \/ GetAssistantRuns
    \/ GetUnattendedRuns
    \/ SendDataToClickup
    \/ BuildRuntimeReport
    \/ GenerateInvoice
    \/ AttachDetailRuntimeToInvoice
    \/ SendFilesToSharepoint

Spec == Init /\ [][Next]_vars

\* Two batch runs over the same inputs that differ in UPDATE_CLICKUP only.
InitDryRun ==
    /\ InitConfig
    /\ UPDATE_CLICKUP = [r \in Runs |-> r = 1]
    /\ run = [r \in Runs |-> RunInit]
    /\ inv = NoInv /\ period = NoPeriod /\ bill = NoBill /\ fetch = NoFetch
    /\ IdleMore

SpecDryRun == InitDryRun /\ [][Next]_vars

\* No batch run: the functions below are applied on their own.
InitNoBatch ==
    /\ LOWER_CLIENT_ID = 10000
    /\ UPPER_CLIENT_ID = 10004
    /\ UPLOAD_TO_SHAREPOINT = FALSE
    /\ CREATE_INVOICE = FALSE
    /\ UPDATE_CLICKUP = [r \in Runs |-> FALSE]
    /\ table = <<>>
    /\ run = [r \in Runs |-> RunOff]

\* The invoice builder alone.
InitInvoice ==
    /\ InitNoBatch
    /\ inv \in InvoiceInputs
    /\ period = NoPeriod /\ bill = NoBill /\ fetch = NoFetch
    /\ IdleMore

NextInvoice == BuildLineItems

SpecInvoice == InitInvoice /\ [][NextInvoice]_vars

\* The billing periods alone.
InitPeriod ==
    /\ InitNoBatch
    /\ period \in PeriodInputs
    /\ inv = NoInv /\ bill = NoBill /\ fetch = NoFetch
    /\ IdleMore

NextPeriod == DerivePeriods

SpecPeriod == InitPeriod /\ [][NextPeriod]_vars

\* The runtime of one run alone.
InitRuntime ==
    /\ InitNoBatch
    /\ fetch \in FetchInputs \cup AssistantRunInputs
    /\ inv = NoInv /\ period = NoPeriod /\ bill = NoBill
    /\ IdleMore

NextRuntime ==
    \/ RequestStepRuns
    \/ RetryStepRuns
    \/ RoundSteps
    \/ RoundAssistantRun

SpecRuntime == InitRuntime /\ [][NextRuntime]_vars

\* The billing windows alone.
InitWindows ==
    /\ InitNoBatch
    /\ IdleUnits
    /\ \E reference_date \in MonthlyRuns : \E started_at \in StartTimes :
         win = [stage |-> "input", reference_date |-> reference_date,
                started_at |-> started_at]
    /\ send = NoSend /\ sync = NoSync /\ retry = NoRetry

NextWindows == ApplyWindows

SpecWindows == InitWindows /\ [][NextWindows]_vars

\* retry_on_failure alone.
InitRetry ==
    /\ InitNoBatch
    /\ IdleUnits
    \* the answers to max_retries + 1 attempts, and whether a token refresh works
    /\ \E max_retries \in 0..MaxRetries :
       \E responses \in [1..(max_retries + 1) -> Responses] :
       \E refresh_ok \in BOOLEAN :
         retry = [stage |-> "input", max_retries |-> max_retries,
                  responses |-> responses, refresh_ok |-> refresh_ok]
    /\ win = NoWin /\ send = NoSend /\ sync = NoSync

NextRetry == CallWrapped

SpecRetry == InitRetry /\ [][NextRetry]_vars

\* send_qbo_invoices alone.
InitSend ==
    /\ InitNoBatch
    /\ IdleUnits
    /\ send \in SendInputs
    /\ win = NoWin /\ sync = NoSync /\ retry = NoRetry

NextSend == QueryInvoices \/ SendInvoice \/ SendEmail

SpecSend == InitSend /\ [][NextSend]_vars

\* sync_robocorp_processes_to_sql alone.
InitSync ==
    /\ InitNoBatch
    /\ IdleUnits
    /\ sync \in SyncInputs
    /\ win = NoWin /\ send = NoSend /\ retry = NoRetry

NextSync == SyncStart \/ SyncLoop

SpecSync == InitSync /\ [][NextSync]_vars

\* generate_invoice alone.
InitBill ==
    /\ InitNoBatch
    /\ bill \in BillInputs
    /\ inv = NoInv /\ period = NoPeriod /\ fetch = NoFetch
    /\ IdleMore

NextBill == GenerateInvoiceFirst \/ GenerateInvoiceSecond

SpecBill == InitBill /\ [][NextBill]_vars

(***************************************************************************)
(* The claims.                                                             *)
(***************************************************************************)
\* The steps of one client, all after the loop head has let the client in.
PerClientSteps == {"assistant", "unattended", "clickup", "invoice", "attach", "upload"}

Skipped(client_number) == ~InRange(client_number) \/ client_number = APD_CLIENT_ID

Finished(r, client_number) == <<client_number, "upload">> \in Range(run[r].steps)

CallsFor(r, client_number, op, target) ==
    {i \in DOMAIN run[r].calls :
        /\ run[r].calls[i].client = client_number
        /\ run[r].calls[i].op = op
        /\ run[r].calls[i].target = target}

\* C1: no failure of a step of an in-range client leaves the batch, and when
\* the run is over every in-range client other than one that failed has gone
\* through all of its steps.
C1_FailureStaysInBatch ==
    \A r \in Runs :
        run[r].pc = "done" /\ run[r].snapshot = "present" =>
            /\ ~(run[r].outcome.kind = "raised" /\ run[r].outcome.at \in PerClientSteps)
            /\ \A i \in DOMAIN table :
                 \/ Skipped(table[i])
                 \/ Finished(r, table[i])
                 \/ run[r].outcome.at \in {"scan", "api_key"}
                 \/ run[r].cur.client_number = table[i]

\* C2: the run ends by returning a boolean, False when a step of some client
\* failed and True only when none did.
C2_ReturnsSuccessFlag ==
    \A r \in Runs :
        run[r].pc = "done" =>
            /\ run[r].outcome.at \in PerClientSteps => run[r].outcome.kind = "false"
            /\ run[r].outcome.kind = "true" =>
                 \A i \in DOMAIN table : Skipped(table[i]) \/ Finished(r, table[i])

\* C3: a record out of the range, or with the reserved id, is skipped: no step
\* and no call is made for it, and reaching it raises nothing.
C3_SkippedRecordIsNoError ==
    \A r \in Runs :
        /\ \A i \in DOMAIN run[r].steps : ~Skipped(run[r].steps[i][1])
        /\ \A i \in DOMAIN run[r].calls : ~Skipped(run[r].calls[i].client)
        /\ run[r].outcome.kind = "raised" /\ run[r].outcome.at = "api_key" =>
             ~Skipped(run[r].cur.client_number)

Max(a, b) == IF a > b THEN a ELSE b

OverageLines(lines) == {i \in DOMAIN lines : lines[i].kind = "Overage"}

\* C5: the overage is max(0, total_runtime - included_minutes); the invoice has
\* the base-service line always and an overage line iff total_runtime exceeds
\* included_minutes.
C5_OverageLineIffOverage ==
    inv.stage = "built" =>
        LET t == inv.total_runtime_prior_month
            i == inv.included_minutes
        IN  /\ OverageMinutes(t, i) = Max(0, t - i)
            /\ inv.Line[1].kind = "BaseService"
            /\ Cardinality(OverageLines(inv.Line)) = (IF t > i THEN 1 ELSE 0)
            /\ Len(inv.Line) = 1 + Cardinality(OverageLines(inv.Line))

C5_Witness ==
    /\ inv.stage = "built"
    /\ inv.total_runtime_prior_month > inv.included_minutes
    /\ inv.included_minutes > 0
    /\ OverageLines(inv.Line) = {2}

\* C6: an overage line has the overage minutes as quantity, the consumption
\* rate as unit price and their product as amount; 1000 included, 1250 run at
\* 0.50 give quantity 250, unit price 0.50 and amount 125.00.
C6_OverageLineValues ==
    inv.stage = "built" =>
        /\ \A n \in OverageLines(inv.Line) :
             /\ inv.Line[n].Qty = inv.total_runtime_prior_month - inv.included_minutes
             /\ inv.Line[n].UnitPrice = inv.consumption_rate
             /\ inv.Line[n].Amount =
                  (inv.total_runtime_prior_month - inv.included_minutes)
                  * inv.consumption_rate
        /\ ( /\ inv.included_minutes = 1000
             /\ inv.total_runtime_prior_month = 1250
             /\ inv.consumption_rate = 50 )
           => /\ Len(inv.Line) = 2
              /\ inv.Line[2].Qty = 250
              /\ inv.Line[2].UnitPrice = 50
              /\ inv.Line[2].Amount = 12500

C6_Witness ==
    /\ inv.stage = "built"
    /\ inv.included_minutes = 1000
    /\ inv.total_runtime_prior_month = 1250
    /\ inv.consumption_rate = 50
    /\ OverageLines(inv.Line) = {2}

\* C7: when the snapshot CSV of the period is absent the run is over before
\* any client: no step was taken and no call issued for any client.
C7_NoSnapshotNoClient ==
    \A r \in Runs :
        run[r].snapshot = "absent" =>
            /\ run[r].pc = "done"
            /\ run[r].outcome.kind = "raised"
            /\ run[r].steps = <<>>
            /\ run[r].calls = <<>>

\* The snapshot was absent and the table held a client the run would have
\* processed.
C7_Witness ==
    /\ run[1].snapshot = "absent"
    /\ run[1].pc = "done"
    /\ \E i \in DOMAIN table : ~Skipped(table[i])
    /\ UPDATE_CLICKUP[1] /\ CREATE_INVOICE /\ UPLOAD_TO_SHAREPOINT

\* C8: a run that ends on missing configuration or a missing credential (a
\* secret, the table name, the API key of a client record the run would
\* process) has done nothing for any client.
C8_MissingCredentialBeforeAnyClient ==
    \A r \in Runs :
        \/ run[r].outcome.cause = "config"
        \/ run[r].outcome.at = "api_key" /\ ~Skipped(run[r].cur.client_number)
        => /\ run[r].steps = <<>>
           /\ run[r].calls = <<>>

\* C9: when no organization task matches the client, the resolver returns the
\* defaults (rate 0, included 0, consumption 0.50) and the steps after it do
\* not fail on them: the invoice step raises no error of its own.
C9_NoTaskDefaultsAndGoesOn ==
    [][\A r \in Runs :
         /\ run[r].pc = "clickup" /\ run'[r].pc = "report"
            /\ ~run'[r].cur.contract.found
            => /\ run'[r].cur.contract.monthly_rate = 0
               /\ run'[r].cur.contract.included_minutes = 0
               /\ run'[r].cur.contract.consumption_rate = 50
         /\ run[r].pc = "invoice" /\ ~run[r].cur.contract.found
            => ~(run'[r].outcome.kind = "raised" /\ run'[r].outcome.cause = "ValueError")
      ]_vars

WithoutWriteBack(calls) == SelectSeq(calls, LAMBDA c : c.op # "set_custom_field_value")

CallsOf(r, op) == {i \in DOMAIN run[r].calls : run[r].calls[i].op = op}

\* C11: a toggle that is off suppresses its own side effect (no upload; no
\* invoice creation and no attachment; no custom-field write), and a toggle
\* that is on has its side effect for every client that went through all its
\* steps, whatever the other two toggles are.
C11_TogglesIndependent ==
    \A r \in Runs :
        /\ ~UPLOAD_TO_SHAREPOINT => CallsOf(r, "upload_file_to_sharepoint") = {}
        /\ ~CREATE_INVOICE =>
             CallsOf(r, "create_invoice") = {} /\ CallsOf(r, "upload_attachment") = {}
        /\ ~UPDATE_CLICKUP[r] => CallsOf(r, "set_custom_field_value") = {}
        /\ \A c \in ClientNumbers :
             Finished(r, c) =>
                /\ UPLOAD_TO_SHAREPOINT =>
                     \A n \in DOMAIN UploadedFiles :
                        CallsFor(r, c, "upload_file_to_sharepoint", UploadedFiles[n]) # {}
                /\ CREATE_INVOICE => CallsFor(r, c, "create_invoice", "Invoice") # {}
                /\ UPDATE_CLICKUP[r] =>
                     /\ CallsFor(r, c, "set_custom_field_value", "Robocorp Lifetime") # {}
                     /\ CallsFor(r, c, "set_custom_field_value", "Robocorp Prior Month") # {}

\* A client went through all its steps with the upload off and the other two
\* toggles on: its counters were written, its invoice created and the report
\* attached, and nothing was uploaded.
C11_Witness ==
    /\ ~UPLOAD_TO_SHAREPOINT /\ CREATE_INVOICE /\ UPDATE_CLICKUP[1]
    /\ \E c \in ClientNumbers :
         /\ Finished(1, c)
         /\ CallsFor(1, c, "create_invoice", "Invoice") # {}
         /\ CallsFor(1, c, "upload_attachment", "invoice.pdf") # {}
         /\ CallsFor(1, c, "set_custom_field_value", "Robocorp Lifetime") # {}
    /\ CallsOf(1, "upload_file_to_sharepoint") = {}

\* C12: for a reference date that is the first day of a month at 00:00:00,
\* priorStart <= priorEnd < currentStart <= currentEnd, and priorEnd is one
\* second before currentStart.
C12_PeriodsOrdered ==
    period.stage = "built" /\ period.reference_date.d = 1 =>
        /\ Instant(period.prior_period_start) <= Instant(period.prior_period_end)
        /\ Instant(period.prior_period_end) < Instant(period.current_period_start)
        /\ Instant(period.current_period_start) <= Instant(period.current_period_end)
        /\ Instant(period.prior_period_end) = Instant(period.current_period_start) - 1

\* The periods of 1 March of a leap year: the prior month is a February of 29
\* days.
C12_Witness ==
    /\ period.stage = "built"
    /\ period.reference_date = DateTime(2024, 3, 1, 0, 0, 0)
    /\ period.prior_period_end.d = 29

\* C13: for a first-of-month reference date, priorStart is the first instant
\* of the previous calendar month (December of the year before for January),
\* priorEnd and currentEnd are 23:59:59 of the last day of the previous and of
\* the reference month, and the label is the year and the unpadded month of
\* priorStart; 2025-10-01 gives 2025-09-01T00:00:00, 2025-09-30T23:59:59,
\* 2025-10-31T23:59:59 and the label 2025-9.
C13_PeriodBoundaries ==
    period.stage = "built" /\ period.reference_date.d = 1 =>
        LET ref == period.reference_date
            py == IF ref.m = 1 THEN ref.y - 1 ELSE ref.y
            pm == IF ref.m = 1 THEN 12 ELSE ref.m - 1
        IN  /\ period.prior_period_start = DateTime(py, pm, 1, 0, 0, 0)
            /\ period.prior_period_end =
                 DateTime(py, pm, DaysInMonth(py, pm), 23, 59, 59)
            /\ period.current_period_end =
                 DateTime(ref.y, ref.m, DaysInMonth(ref.y, ref.m), 23, 59, 59)
            /\ period.sharepoint_file_date = Digits(py) \o <<"-">> \o Digits(pm)
            /\ Len(period.sharepoint_file_date) = (IF pm < 10 THEN 6 ELSE 7)
            /\ ref = DateTime(2025, 10, 1, 0, 0, 0) =>
                 /\ period.prior_period_start = DateTime(2025, 9, 1, 0, 0, 0)
                 /\ period.prior_period_end = DateTime(2025, 9, 30, 23, 59, 59)
                 /\ period.current_period_end = DateTime(2025, 10, 31, 23, 59, 59)
                 /\ period.sharepoint_file_date = <<"2", "0", "2", "5", "-", "9">>

C13_Witness ==
    /\ period.stage = "built"
    /\ period.reference_date = DateTime(2025, 10, 1, 0, 0, 0)
    /\ period.sharepoint_file_date = <<"2", "0", "2", "5", "-", "9">>

\* C14: for every billing day in 1..31 and every current month the builder
\* produces an invoice whose transaction date is that day of the month, and
\* whose due date is the transaction date, or one calendar month later for a
\* client of the net-30 list.
C14_InvoiceDates ==
    bill.stage \in {"once", "twice"} =>
        LET txn == [y |-> bill.first.now.y, m |-> bill.first.now.m,
                    d |-> bill.contract.day_to_bill]
        IN  /\ ~bill.first.raised
            /\ bill.first.payload.TxnDate = txn
            /\ bill.first.payload.DueDate =
                 (IF bill.client_number \in NET_30_DAYS_CLIENTS
                  THEN AddOneMonth(txn) ELSE txn)

\* C16: two calls of the invoice builder with the same contract and usage give
\* the same payload.
C16_SameInputsSamePayload ==
    bill.stage = "twice" =>
        /\ bill.first.raised = bill.second.raised
        /\ bill.first.payload = bill.second.payload

EmptyUsage(cur) ==
    /\ cur.total_runtime_prior_month_unattended = 0
    /\ cur.assistant = NoAssistant
    /\ cur.unattended_runs = NoUnattendedRuns

\* C15: when the assistant source and both unattended sources are empty for a
\* client, its total runtime is 0, the report step ends with no report (empty
\* breakdowns) and does not raise.
C15_EmptyUsageIsZero ==
    [][\A r \in Runs :
         run[r].pc = "report" /\ EmptyUsage(run[r].cur) =>
            /\ run[r].cur.total_runtime_prior_month = 0
            /\ run'[r].pc = "invoice"
            /\ run'[r].outcome = NoOutcome
            /\ run'[r].cur.total_runtime_prior_month = 0
            /\ ~run'[r].cur.report_datastream
      ]_vars

\* A client with no usage at all got its invoice built: the base line only.
C15_Witness ==
    /\ run[1].pc = "attach"
    /\ run[1].cur.total_runtime_prior_month = 0
    /\ ~run[1].cur.report_datastream
    /\ run[1].cur.contract.found
    /\ Len(run[1].cur.invoice.Line) = 1

\* C17: the total runtime the invoice is computed from equals the Total row of
\* the latest month column of the pivot of the client's runs.
C17_InvoiceTotalIsPivotTotal ==
    \A r \in Runs :
        run[r].pc = "report" /\ HasPivot(run[r].cur) =>
            run[r].cur.total_runtime_prior_month = PivotTotal(run[r].cur)

\* C19: with the write-back on, the value written to the lifetime field is the
\* lifetime value read from the task plus the total runtime of the period, and
\* the value written to the prior-month field is that total.
C19_WriteBackValues ==
    \A r \in Runs :
        UPDATE_CLICKUP[r] /\ run[r].pc \in {"report", "invoice", "attach"} =>
            /\ Len(run[r].cur.writes) = 2
            /\ run[r].cur.writes[1].target = "Robocorp Lifetime"
            /\ run[r].cur.writes[1].value =
                 run[r].cur.contract.robocorp_lifetime_usage
                 + run[r].cur.total_runtime_prior_month
            /\ run[r].cur.writes[2].target = "Robocorp Prior Month"
            /\ run[r].cur.writes[2].value = run[r].cur.total_runtime_prior_month

\* A task with a lifetime of 7 minutes and a period of 5: 12 and 5 are written.
C19_Witness ==
    /\ UPDATE_CLICKUP[1]
    /\ run[1].pc = "report"
    /\ run[1].cur.contract.found
    /\ run[1].cur.contract.robocorp_lifetime_usage = 7
    /\ run[1].cur.total_runtime_prior_month = 5
    /\ run[1].cur.writes[1].resolved /\ run[1].cur.writes[1].value = 12
    /\ run[1].cur.writes[2].resolved /\ run[1].cur.writes[2].value = 5

\* C18: a page request that fails is made once more: no page takes more than
\* two requests, after a retry that succeeds the paging goes on to the last
\* page, and a second failure in a row is raised.
C18_RetryOnce ==
    fetch.stage \in FetchStages =>
        /\ fetch.attempts <= 2
        /\ \A i \in DOMAIN fetch.log : fetch.log[i] \in {1, 2}
        /\ fetch.stage = "sleep" => fetch.attempts = 1
        /\ fetch.stage = "raised" => fetch.attempts = 2
        /\ fetch.stage \in {"round", "done"} =>
             /\ fetch.unattended_run_list = fetch.steps
             /\ fetch.attempts = 0

\* The first page failed once and its retry succeeded; the second page was
\* fetched after it.
C18_Witness ==
    /\ fetch.stage = "done"
    /\ Len(fetch.log) >= 2
    /\ fetch.log[1] = 2
    /\ fetch.unattended_run_list = fetch.steps

\* The least number of whole minutes that cover d seconds.
WholeMinutes(d) == CHOOSE n \in 0..d : 60 * n >= d /\ 60 * (n - 1) < d

RECURSIVE SumOfWholeMinutes(_)
SumOfWholeMinutes(steps) ==
    IF steps = <<>> THEN 0
    ELSE (IF Head(steps).null THEN 0 ELSE WholeMinutes(Head(steps).seconds))
         + SumOfWholeMinutes(Tail(steps))

\* C20: an assistant run of d >= 0 seconds counts ceil(d / 60) minutes (1 -> 1,
\* 60 -> 1, 61 -> 2); an unattended process run counts the sum over its steps
\* of ceil(duration / 60), a step with no duration counting 0; neither is
\* negative.
C20_RoundedUpPerDuration ==
    /\ fetch.stage = "assistant_done" =>
         /\ fetch.runtime = WholeMinutes(fetch.duration)
         /\ fetch.runtime >= 0
         /\ fetch.duration = 1 => fetch.runtime = 1
         /\ fetch.duration = 60 => fetch.runtime = 1
         /\ fetch.duration = 61 => fetch.runtime = 2
    /\ fetch.stage = "done" =>
         /\ fetch.rounded_minutes = SumOfWholeMinutes(fetch.steps)
         /\ fetch.rounded_minutes >= 0

\* A process run with steps of 61 seconds, of no duration and of 60 seconds
\* counts 3 minutes.
C20_Witness ==
    /\ fetch.stage = "done"
    /\ fetch.steps = <<Seconds(61), NullDuration, Seconds(60)>>
    /\ fetch.rounded_minutes = 3

\* The order of datetimes, field by field.
Stamp(dt) == <<dt.y, dt.m, dt.d, dt.hh, dt.mm, dt.ss, Frac(dt)>>

RECURSIVE LexLeq(_, _)
LexLeq(a, b) ==
    IF a = <<>> THEN TRUE
    ELSE IF Head(a) # Head(b) THEN Head(a) < Head(b)
    ELSE LexLeq(Tail(a), Tail(b))

Within(started_at, from, to) ==
    LexLeq(Stamp(from), Stamp(started_at)) /\ LexLeq(Stamp(started_at), Stamp(to))

C27_BilledExactlyOnce ==
    win.stage = "filtered"
    /\ LexLeq(<<2024, 1, 1, 0, 0, 0, 0>>, Stamp(win.started_at))
    /\ LexLeq(Stamp(win.started_at), <<2025, 11, 30, 0, 0, 0, 0>>)
    => Cardinality(win.billed_by) = 1

\* C22: a contract task that lacks a financial field, or carries a missing,
\* empty or unparseable value for it, never makes the contract resolver
\* raise: no batch run ends with the exception of a conversion in
\* send_data_to_clickup.
C22_BadFieldNeverRaises ==
    \A r \in Runs :
        ~(/\ run[r].outcome.kind = "raised"
          /\ run[r].outcome.at = "clickup"
          /\ run[r].outcome.cause = "ValueError")

\* The steps of one client, in the order of lines 140-186: the usage is
\* normalised and aggregated (spreadsheet, assistant, unattended), the
\* contract resolved (clickup), the invoice built (report, invoice),
\* submitted (invoice, attach) and archived (upload).
StepOrder ==
    <<"spreadsheet", "assistant", "unattended", "clickup", "report", "invoice",
      "attach", "upload">>

Rank(step) == CHOOSE i \in DOMAIN StepOrder : StepOrder[i] = step

\* C23: the snapshot is fetched before any client's step; the steps of a
\* client occur in the fixed order and the first step of a client follows the
\* last step of the client before it; the run is done with success only after
\* the last step of a client.
C23_StateMachineOrder ==
    \A r \in Runs :
        LET steps == run[r].steps
        IN  /\ run[r].pc \in {"start", "snapshot", "scan"} => steps = <<>>
            /\ steps # <<>> => run[r].snapshot = "present" /\ Rank(steps[1][2]) = 1
            /\ \A i \in DOMAIN steps :
                 /\ steps[i][1] \in Range(table)
                 /\ steps[i][2] \in Range(StepOrder)
                 /\ i > 1 =>
                      \/ /\ steps[i][1] = steps[i - 1][1]
                         /\ Rank(steps[i][2]) = Rank(steps[i - 1][2]) + 1
                      \/ /\ steps[i - 1][2] = "upload"
                         /\ Rank(steps[i][2]) = 1
            /\ run[r].outcome.kind = "true" /\ steps # <<>> =>
                 steps[Len(steps)][2] = "upload"

\* Two clients were processed to the end, one after the other.
C23_Witness ==
    \E r \in Runs :
        /\ run[r].outcome.kind = "true"
        /\ Len(run[r].steps) = 2 * Len(StepOrder)
        /\ run[r].steps[Len(StepOrder)][1] # run[r].steps[Len(StepOrder) + 1][1]

\* C24: when a step after the contract resolution (invoice, attachment,
\* upload) fails for a client, the lifetime counter of that client's
\* organization task is as it was before the run: no write-back of the run
\* has changed it.
C24_NoWriteBackWithoutInvoice ==
    [][\A r \in Runs :
         /\ run[r].outcome.kind = "running"
         /\ run'[r].outcome.kind = "raised"
         /\ run'[r].outcome.at \in {"invoice", "attach", "upload"}
         => \A i \in DOMAIN run[r].cur.writes :
              LET w == run[r].cur.writes[i]
              IN  ~(/\ w.resolved
                    /\ w.target = "Robocorp Lifetime"
                    /\ w.value # run[r].cur.contract.robocorp_lifetime_usage)]_vars

\* C25: every write-back of a run is issued with the id of a resolved
\* organization task and the id of a field of that task, never with an
\* absent one.
C25_WriteBackOnlyResolved ==
    \A r \in Runs :
        \A i \in DOMAIN run[r].cur.writes : run[r].cur.writes[i].resolved

\* The quantity and the amount of the overage line of an invoice; zero when
\* the invoice has none.
InvoiceOverage(lines) ==
    IF OverageLines(lines) = {} THEN <<0, 0>>
    ELSE LET i == CHOOSE j \in OverageLines(lines) : TRUE
         IN  <<lines[i].Qty, lines[i].Amount>>

\* C26: when the runtime report is attached to the created invoice, the
\* overage minutes and the overage cost of its Overage Calculation sheet are
\* the quantity and the amount of the overage line of that invoice, and both
\* are zero or absent together.
C26_SheetEqualsOverageLine ==
    \A r \in Runs :
        /\ run[r].pc = "attach"
        /\ run[r].cur.report_datastream
        /\ run[r].cur.invoice_json
        => <<run[r].cur.overage_sheet.overage_minutes,
             run[r].cur.overage_sheet.total_cost>>
           = InvoiceOverage(run[r].cur.invoice.Line)

\* C28: an invoice dated today is sent iff its amount is not zero and its
\* customer is not excluded; a failure to send one invoice becomes the status
\* of its row and the loop goes on; every invoice of today has exactly one row
\* in the summary that is emailed.
C28_SendsAndSummarisesAll ==
    /\ \A k \in DOMAIN send.invoice_rows :
         LET invoice == send.invoices[k]
             attempted == invoice.TotalAmt # 0 /\ invoice.Name \notin EXCLUDED_CUSTOMERS
         IN  /\ send.invoice_rows[k].Id = invoice.Id
             /\ invoice.Id \in Range(send.send_calls) <=> attempted
             /\ send.invoice_rows[k].Status \in {"Sent", "Error"} <=> attempted
    /\ ~(send.stage = "raised" /\ send.at = "send_invoice")
    /\ send.stage = "done" /\ send.invoices # <<>> =>
         /\ Len(send.summary) = Len(send.invoices)
         /\ \A k \in DOMAIN send.summary : send.summary[k].Id = send.invoices[k].Id

FailedClients(log) ==
    {log[i].client_number : i \in {j \in DOMAIN log :
        \/ ~log[j].has_key
        \/ log[j].outcome[1] = "api_fails"
        \/ log[j].outcome[1] = "rows" /\ log[j].outcome[2] # 0}}

====
